---- MODULE Spec2Model ----
(***************************************************************************)
(* Model of the internship-matching backend (src/main.py, src/schemas.py). *)
(*                                                                         *)
(* Strings are sequences of one-character strings, so that split, strip    *)
(* and lower are computed character by character as Python computes them.  *)
(* Scores are kept in units of 1/10000: round(x, 4) of the code is the     *)
(* integer Round4 of the exact rational value.  A missing optional form    *)
(* field and an empty one are the same value here ("" for a name, <<>> for *)
(* the preferences string): the handler only tests their truthiness.       *)
(* The updated_at timestamp written by signin is left out of the records.  *)
(***************************************************************************)
EXTENDS Naturals, Integers, Sequences, FiniteSets, TLC

VARIABLES db, students, internships, uploads, req, resp

vars == <<db, students, internships, uploads, req, resp>>

(* ------------------------------ bounds -------------------------------- *)

MaxPrefs == 2       \* longest stored preference list drawn in InitRank
MaxCatalog == 2     \* longest catalog drawn in InitRank
MaxLimit == 2       \* largest limit of a match request
MaxNegLimit == 2    \* limits go down to -MaxNegLimit

(* --------------------------- program constants ------------------------ *)

PrefWeight == 6000      \* 0.6, in units of 1/10000
SkillWeight == 4000     \* 0.4, in units of 1/10000
DefaultLimit == 5       \* MatchRequest.limit

(* ------------------------------ strings ------------------------------- *)

Letters ==
    { <<"A", "a">>, <<"B", "b">>, <<"C", "c">>, <<"D", "d">>, <<"E", "e">>,
      <<"F", "f">>, <<"G", "g">>, <<"H", "h">>, <<"I", "i">>, <<"J", "j">>,
      <<"K", "k">>, <<"L", "l">>, <<"M", "m">>, <<"N", "n">>, <<"O", "o">>,
      <<"P", "p">>, <<"Q", "q">>, <<"R", "r">>, <<"S", "s">>, <<"T", "t">>,
      <<"U", "u">>, <<"V", "v">>, <<"W", "w">>, <<"X", "x">>, <<"Y", "y">>,
      <<"Z", "z">> }

UpperCase == {l[1] : l \in Letters}

LowerOf == [c \in UpperCase |-> (CHOOSE l \in Letters : l[1] = c)[2]]

\* str.lower(), one character: an upper-case letter becomes its lower-case
\* letter, every other character is kept
LowerChar(c) == IF c \in UpperCase THEN LowerOf[c] ELSE c

\* s.lower()
Lower(s) == [i \in 1..Len(s) |-> LowerChar(s[i])]

IsSpace(c) == c = " "

RECURSIVE LStrip(_)
LStrip(s) ==
    IF s # <<>> /\ IsSpace(Head(s)) THEN LStrip(Tail(s)) ELSE s

RECURSIVE RStrip(_)
RStrip(s) ==
    IF s # <<>> /\ IsSpace(s[Len(s)]) THEN RStrip(SubSeq(s, 1, Len(s) - 1)) ELSE s

\* p.strip()
Strip(s) == RStrip(LStrip(s))

\* s.split(","): the pieces between the commas, empty pieces included
RECURSIVE SplitAcc(_, _, _)
SplitAcc(s, cur, acc) ==
    IF s = <<>> THEN Append(acc, cur)
    ELSE IF Head(s) = "," THEN SplitAcc(Tail(s), <<>>, Append(acc, cur))
    ELSE SplitAcc(Tail(s), Append(cur, Head(s)), acc)

Split(s) == SplitAcc(s, <<>>, <<>>)

\* the pieces kept as they are cut, without p.strip()
RECURSIVE Unstripped(_)
Unstripped(pieces) ==
    IF pieces = <<>> THEN <<>>
    ELSE IF Strip(Head(pieces)) # <<>>
         THEN <<Head(pieces)>> \o Unstripped(Tail(pieces))
         ELSE Unstripped(Tail(pieces))

RECURSIVE StrippedNonEmpty(_)
StrippedNonEmpty(pieces) ==
    IF pieces = <<>> THEN <<>>
    ELSE IF Strip(Head(pieces)) # <<>>
         THEN <<Strip(Head(pieces))>> \o StrippedNonEmpty(Tail(pieces))
         ELSE StrippedNonEmpty(Tail(pieces))

\* pref_list of signin
ParsePrefs(preferences) ==
    IF preferences # <<>> THEN StrippedNonEmpty(Split(preferences)) ELSE <<>>

ToSet(seq) == {seq[i] : i \in 1..Len(seq)}

LowerAll(seq) == [i \in 1..Len(seq) |-> Lower(seq[i])]

Max(a, b) == IF a >= b THEN a ELSE b

Min(a, b) == IF a <= b THEN a ELSE b

(* ------------------------------ the words ----------------------------- *)

python == <<"p", "y", "t", "h", "o", "n">>
Python == <<"P", "y", "t", "h", "o", "n">>
sql == <<"s", "q", "l">>
SQL == <<"S", "Q", "L">>
pandas == <<"p", "a", "n", "d", "a", "s">>
analytics == <<"a", "n", "a", "l", "y", "t", "i", "c", "s">>
react == <<"r", "e", "a", "c", "t">>
javascript == <<"j", "a", "v", "a", "s", "c", "r", "i", "p", "t">>
css == <<"c", "s", "s">>
ui == <<"u", "i">>
security == <<"s", "e", "c", "u", "r", "i", "t", "y">>
network == <<"n", "e", "t", "w", "o", "r", "k">>
linux == <<"l", "i", "n", "u", "x">>
ml == <<"m", "l">>
scikit == <<"s", "c", "i", "k", "i", "t">>
numpy == <<"n", "u", "m", "p", "y">>
fastapi == <<"f", "a", "s", "t", "a", "p", "i">>
mongodb == <<"m", "o", "n", "g", "o", "d", "b">>
docker == <<"d", "o", "c", "k", "e", "r">>

(* ------------------------------ scoring ------------------------------- *)

\* round(x, 4) for x = num / den given in units of 1/10000: the nearest
\* integer, a tie going to the even one
Round4(num, den) ==
    LET q == num \div den
        r == num % den
    IN  IF 2 * r < den THEN q
        ELSE IF 2 * r > den THEN q + 1
        ELSE IF q % 2 = 0 THEN q ELSE q + 1

\* intern.get("skills", [])
GetSkills(intern) == IF "skills" \in DOMAIN intern THEN intern.skills ELSE <<>>

\* user.get("preferences", [])
GetPreferences(user) ==
    IF "preferences" \in DOMAIN user THEN user.preferences ELSE <<>>

\* score with the two weights exchanged
score_weights_swapped(user_prefs, intern) ==
    LET skills == LowerAll(GetSkills(intern))
        overlap == Cardinality(ToSet(skills) \cap ToSet(user_prefs))
        pref_cov == IF user_prefs # <<>>
                    THEN <<overlap, Max(1, Cardinality(ToSet(user_prefs)))>>
                    ELSE <<0, 1>>
        skill_cov == <<overlap, Max(1, Cardinality(ToSet(skills)))>>
    IN  IF skills = <<>> THEN 0
        ELSE Round4(SkillWeight * pref_cov[1] * skill_cov[2]
                      + PrefWeight * skill_cov[1] * pref_cov[2],
                    pref_cov[2] * skill_cov[2])

\* score with a student without preferences counted as fully covered
score_empty_prefs_full(user_prefs, intern) ==
    LET skills == LowerAll(GetSkills(intern))
        overlap == Cardinality(ToSet(skills) \cap ToSet(user_prefs))
        pref_cov == IF user_prefs # <<>>
                    THEN <<overlap, Max(1, Cardinality(ToSet(user_prefs)))>>
                    ELSE <<1, 1>>
        skill_cov == <<overlap, Max(1, Cardinality(ToSet(skills)))>>
    IN  IF skills = <<>> THEN 0
        ELSE Round4(PrefWeight * pref_cov[1] * skill_cov[2]
                      + SkillWeight * skill_cov[1] * pref_cov[2],
                    pref_cov[2] * skill_cov[2])

\* score with the coverages taken over the lists instead of over the sets
score_list_lengths(user_prefs, intern) ==
    LET skills == LowerAll(GetSkills(intern))
        overlap == Cardinality(ToSet(skills) \cap ToSet(user_prefs))
        pref_cov == IF user_prefs # <<>>
                    THEN <<overlap, Max(1, Len(user_prefs))>>
                    ELSE <<0, 1>>
        skill_cov == <<overlap, Max(1, Len(skills))>>
    IN  IF skills = <<>> THEN 0
        ELSE Round4(PrefWeight * pref_cov[1] * skill_cov[2]
                      + SkillWeight * skill_cov[1] * pref_cov[2],
                    pref_cov[2] * skill_cov[2])

\* the closure score(intern) of match_top, user_prefs being its free variable;
\* a coverage is the pair <<numerator, denominator>>
score(user_prefs, intern) ==
    LET skills == LowerAll(GetSkills(intern))
        overlap == Cardinality(ToSet(skills) \cap ToSet(user_prefs))
        pref_cov == IF user_prefs # <<>>
                    THEN <<overlap, Max(1, Cardinality(ToSet(user_prefs)))>>
                    ELSE <<0, 1>>
        skill_cov == <<overlap, Max(1, Cardinality(ToSet(skills)))>>
    IN  IF skills = <<>> THEN 0
        ELSE Round4(PrefWeight * pref_cov[1] * skill_cov[2]
                      + SkillWeight * skill_cov[1] * pref_cov[2],
                    pref_cov[2] * skill_cov[2])

\* Internship(title=i.get("title"), ..., skills=i.get("skills", []))
InternshipView(i) ==
    [title |-> i.title, company |-> i.company, description |-> i.description,
     location |-> i.location, stipend |-> i.stipend, skills |-> GetSkills(i)]

\* the list comprehension building `scored`
Scored(user_prefs, catalog) ==
    [k \in 1..Len(catalog) |->
        [score |-> score(user_prefs, catalog[k]),
         internship |-> InternshipView(catalog[k])]]

\* a descending sort that puts an element in front of its equals
RECURSIVE InsertDesc_unstable(_, _)
InsertDesc_unstable(x, s) ==
    IF s = <<>> THEN <<x>>
    ELSE IF Head(s).score > x.score
         THEN <<Head(s)>> \o InsertDesc_unstable(x, Tail(s))
    ELSE <<x>> \o s

\* list.sort(key=score, reverse=True) is stable: an element goes behind every
\* element whose score is not smaller
RECURSIVE InsertDesc(_, _)
InsertDesc(x, s) ==
    IF s = <<>> THEN <<x>>
    ELSE IF Head(s).score >= x.score THEN <<Head(s)>> \o InsertDesc(x, Tail(s))
    ELSE <<x>> \o s

RECURSIVE SortInto(_, _)
SortInto(seq, acc) ==
    IF seq = <<>> THEN acc ELSE SortInto(Tail(seq), InsertDesc(Head(seq), acc))

SortDesc(seq) == SortInto(seq, <<>>)

IsPositive(s) == s.score > 0

\* [s for s in scored if s.score > 0]
Positive(seq) == SelectSeq(seq, IsPositive)

\* seq[:n + 1]
Slice_one_more(seq, n) ==
    IF n + 1 >= 0 THEN SubSeq(seq, 1, Min(n + 1, Len(seq)))
    ELSE SubSeq(seq, 1, Max(0, Len(seq) + n + 1))

\* seq[:n] of Python: a negative n counts from the end
Slice(seq, n) ==
    IF n >= 0 THEN SubSeq(seq, 1, Min(n, Len(seq)))
    ELSE SubSeq(seq, 1, Max(0, Len(seq) + n))

\* the value match_top returns for a found user
Top(user, catalog, limit) ==
    LET user_prefs == LowerAll(GetPreferences(user))
    IN  Slice(Positive(SortDesc(Scored(user_prefs, catalog))), limit)

(* ------------------------------ the store ----------------------------- *)

NoDb == "None"
Mongo == "mongo"

NoUrl == <<>>
NoFile == "None"
NoText == "None"

Emails == {"ann@x.in", "bob@x.in"}
Passwords == {"pw1", "pw2"}
Names == {"Ann"}
Files == {"cv.pdf"}

\* the preferences form field: absent or empty, blank pieces only, mixed case,
\* repeated tokens, padded tokens
RawPreferences ==
    { <<>>,
      <<" ", ",">>,
      Python \o <<",", " ">> \o sql,
      sql \o <<",">> \o SQL \o <<",">> \o sql }

Limits == (-MaxNegLimit .. MaxLimit) \cup {DefaultLimit}

\* pwd_context.hash / pwd_context.verify: a hash verifies exactly the password
\* it was made from
hash_password(password) == <<"bcrypt", password>>

verify_password(password, password_hash) == password_hash = <<"bcrypt", password>>

\* a query that matches no document
find_one_none(col, email) == 0

\* collection.find_one({"email": email}): the position of the first document
\* with that email, 0 for None; a document's position is its _id
find_one(col, email) ==
    IF \E i \in 1..Len(col) : col[i].email = email
    THEN CHOOSE i \in 1..Len(col) :
            /\ col[i].email = email
            /\ \A j \in 1..(i - 1) : col[j].email # email
    ELSE 0

\* create_document(collection_name, data): one more document in the collection
create_document(col, data) == Append(col, data)

\* os.path.join(UPLOAD_DIR, f"{_id}_{filename}")
file_path(id, filename) == <<"uploads", id, filename>>

\* f"/uploads/{os.path.basename(file_path)}"
resume_url_of(path) == <<"/uploads", path[2], path[3]>>

\* the update with the new preferences added to the stored ones
SigninUpdate_merge(user, id, name, pref_list, resume) ==
    LET u1 == IF name # "" /\ name # user.name
              THEN [user EXCEPT !.name = name] ELSE user
        u2 == IF pref_list # <<>>
              THEN [u1 EXCEPT !.preferences = user.preferences \o pref_list] ELSE u1
        u3 == IF resume # NoFile
              THEN [u2 EXCEPT !.resume_url = resume_url_of(file_path(id, resume))]
              ELSE u2
    IN  u3

\* the dict `update` of signin applied to the stored document by $set
SigninUpdate(user, id, name, pref_list, resume) ==
    LET u1 == IF name # "" /\ name # user.name
              THEN [user EXCEPT !.name = name] ELSE user
        u2 == IF pref_list # <<>>
              THEN [u1 EXCEPT !.preferences = pref_list] ELSE u1
        u3 == IF resume # NoFile
              THEN [u2 EXCEPT !.resume_url = resume_url_of(file_path(id, resume))]
              ELSE u2
    IN  u3

\* Student(name=..., email=..., password_hash=..., preferences=pref_list,
\*         resume_url=None, role="student")
NewStudent(name, email, password, pref_list) ==
    [name |-> name, email |-> email, password_hash |-> hash_password(password),
     preferences |-> pref_list, resume_url |-> NoUrl, role |-> "student"]

AuthResponse(name, email, preferences, resume_url) ==
    [name |-> name, email |-> email, preferences |-> preferences,
     resume_url |-> resume_url]

HTTPException(status_code, detail) == [status |-> status_code, detail |-> detail]

Ok(body) == [status |-> 200, body |-> body]

SigninRequest(email, password, name, preferences, resume) ==
    [op |-> "signin", email |-> email, password |-> password, name |-> name,
     preferences |-> preferences, resume |-> resume]

(* ------------------------------ signin -------------------------------- *)

Signin(email, password, name, preferences, resume) ==
    LET id == find_one(students, email)
        pref_list == ParsePrefs(preferences)
    IN  /\ req' = SigninRequest(email, password, name, preferences, resume)
        /\ UNCHANGED <<db, internships>>
        /\ IF db = NoDb
           THEN /\ resp' = HTTPException(500, "Database not configured")
                /\ UNCHANGED <<students, uploads>>
           ELSE IF id # 0
           THEN IF ~verify_password(password, students[id].password_hash)
                THEN /\ resp' = HTTPException(401, "Invalid email or password")
                     /\ UNCHANGED <<students, uploads>>
                ELSE LET user == SigninUpdate(students[id], id, name, pref_list, resume)
                     IN  /\ students' = [students EXCEPT ![id] = user]
                         /\ uploads' = IF resume # NoFile
                                       THEN uploads \cup {file_path(id, resume)}
                                       ELSE uploads
                         /\ resp' = Ok(AuthResponse(user.name, email,
                                                    user.preferences, user.resume_url))
           ELSE IF name = ""
                THEN /\ resp' = HTTPException(400, "Name is required for new users")
                     /\ UNCHANGED <<students, uploads>>
                ELSE LET created == create_document(students,
                                        NewStudent(name, email, password, pref_list))
                         user_id == Len(created)
                         url == IF resume # NoFile
                                THEN resume_url_of(file_path(user_id, resume))
                                ELSE NoUrl
                     IN  /\ students' = IF resume # NoFile
                                        THEN [created EXCEPT ![user_id].resume_url = url]
                                        ELSE created
                         /\ uploads' = IF resume # NoFile
                                       THEN uploads \cup {file_path(user_id, resume)}
                                       ELSE uploads
                         /\ resp' = Ok(AuthResponse(name, email, pref_list, url))

(* -------------------------- seed_internships -------------------------- *)

Internship(title, company, description, location, stipend, skills) ==
    [title |-> title, company |-> company, description |-> description,
     location |-> location, stipend |-> stipend, skills |-> skills]

samples ==
    << Internship("Data Analyst Intern", "Insight Labs",
                  "Work with data pipelines and dashboards", "Remote", "15,000",
                  <<python, sql, pandas, analytics>>),
       Internship("Frontend Developer Intern", "WebWorks",
                  "Build UI components with React", "Delhi", "12,000",
                  <<react, javascript, css, ui>>),
       Internship("Cybersecurity Intern", "SecureNet",
                  "Assist in vulnerability assessments", "Bangalore", "18,000",
                  <<security, network, linux, python>>),
       Internship("Machine Learning Intern", "AI Forge",
                  "Model training and experimentation", "Remote", "20,000",
                  <<ml, python, scikit, numpy>>),
       Internship("Backend Developer Intern", "CloudStack",
                  "APIs and microservices", "Hyderabad", "17,000",
                  <<python, fastapi, mongodb, docker>>) >>

RECURSIVE CreateAll(_, _)
CreateAll(col, docs) ==
    IF docs = <<>> THEN col
    ELSE CreateAll(create_document(col, Head(docs)), Tail(docs))

SeedInternships ==
    /\ req' = [op |-> "seed"]
    /\ UNCHANGED <<db, students, uploads>>
    /\ IF db = NoDb
       THEN /\ resp' = HTTPException(500, "Database not configured")
            /\ UNCHANGED internships
       ELSE IF Len(internships) > 0
       THEN /\ resp' = Ok("Internships already seeded")
            /\ UNCHANGED internships
       ELSE /\ internships' = CreateAll(internships, samples)
            /\ resp' = Ok("Seeded internships")

(* ------------------------------ match_top ----------------------------- *)

MatchRequest(email, limit) == [op |-> "match", email |-> email, limit |-> limit]

\* match_top without the 404: an unknown student is ranked as one without
\* preferences
MatchTop_no_lookup(email, limit) ==
    LET id == find_one(students, email)
    IN  /\ req' = MatchRequest(email, limit)
        /\ UNCHANGED <<db, students, internships, uploads>>
        /\ IF db = NoDb
           THEN resp' = HTTPException(500, "Database not configured")
           ELSE IF id = 0
           THEN resp' = Ok(Top([email |-> email], internships, limit))
           ELSE resp' = Ok(Top(students[id], internships, limit))

MatchTop(email, limit) ==
    LET id == find_one(students, email)
    IN  /\ req' = MatchRequest(email, limit)
        /\ UNCHANGED <<db, students, internships, uploads>>
        /\ IF db = NoDb
           THEN resp' = HTTPException(500, "Database not configured")
           ELSE IF id = 0
           THEN resp' = HTTPException(404, "User not found")
           ELSE resp' = Ok(Top(students[id], internships, limit))

(* --------------------------- the specification ------------------------ *)

NoRequest == [op |-> "none"]
NoResponse == [status |-> 0]

Init ==
    /\ db \in {Mongo, NoDb}
    /\ students = <<>>
    /\ internships = <<>>
    /\ uploads = {}
    /\ req = NoRequest
    /\ resp = NoResponse

SigninStep ==
    \E email \in Emails, password \in Passwords, name \in Names \cup {""},
       preferences \in RawPreferences, resume \in Files \cup {NoFile} :
        Signin(email, password, name, preferences, resume)

MatchStep == \E email \in Emails, limit \in Limits : MatchTop(email, limit)

Next ==
    \/ SigninStep
    \/ SeedInternships
    \/ MatchStep

Spec == Init /\ [][Next]_vars

(* ---------------- the Matcher on drawn store contents ----------------- *)

PrefTokens == {python, Python, sql}

\* the stored preference lists of at most MaxPrefs tokens
PrefLists == UNION {[1..n -> PrefTokens] : n \in 0..MaxPrefs}

SkillLists ==
    { <<>>,
      <<Python, python>>,
      <<python, sql>>,
      <<SQL, python>>,
      <<python, sql, pandas, analytics>> }

\* the catalogs of at most MaxCatalog postings, told apart by their titles
CatalogOf(c) ==
    [k \in 1..Len(c) |->
        Internship(ToString(k), "Acme", NoText, NoText, NoText, c[k])]

Catalogs == {CatalogOf(c) : c \in UNION {[1..n -> SkillLists] : n \in 0..MaxCatalog}}

\* a student document that has no preferences field
StudentWithoutPreferences ==
    [name |-> "Ann", email |-> "ann@x.in", password_hash |-> hash_password("pw1"),
     resume_url |-> NoUrl, role |-> "student"]

StoredStudents ==
    {NewStudent("Ann", "ann@x.in", "pw1", pl) : pl \in PrefLists}
        \cup {StudentWithoutPreferences}

InitRank ==
    /\ db = Mongo
    /\ students \in {<<u>> : u \in StoredStudents}
    /\ internships \in Catalogs
    /\ uploads = {}
    /\ req \in {MatchRequest("ann@x.in", limit) : limit \in Limits}
    /\ resp = NoResponse

\* the pending request is handled
RankStep ==
    /\ resp = NoResponse
    /\ MatchTop(req.email, req.limit)

NextRank == RankStep

SpecRank == InitRank /\ [][NextRank]_vars

(* ------------------------------ properties ---------------------------- *)

\* a ranking was returned for the request
Ranked == req.op = "match" /\ resp.status = 200

TheUser == students[find_one(students, req.email)]

StoredPrefs == GetPreferences(TheUser)

\* the lowercased, deduplicated token set of a list
NormSet(list) == {Lower(list[i]) : i \in 1..Len(list)}

\* the scores of all catalog entries, as match_top computes them
AllScored == Scored(LowerAll(StoredPrefs), internships)

\* the reference formula, on the token sets P and S, in units of 1/10000
RefScore(P, S) ==
    LET overlap == Cardinality(S \cap P)
    IN  IF S = {} THEN 0
        ELSE IF P = {} THEN Round4(4000 * overlap, Cardinality(S))
        ELSE Round4(6000 * overlap * Cardinality(S) + 4000 * overlap * Cardinality(P),
                    Cardinality(P) * Cardinality(S))

\* C1: the score match_top computes for a posting, and every score it returns,
\* is the reference formula on the two token sets; a posting without skills
\* scores 0, and {python, sql} against {python, sql, pandas, analytics}
\* scores 0.8
C1_ScoreIsReference ==
    Ranked =>
        LET P == NormSet(StoredPrefs)
            scored == AllScored
        IN  /\ \A k \in 1..Len(internships) :
                  LET S == NormSet(GetSkills(internships[k]))
                  IN  /\ scored[k].score = RefScore(P, S)
                      /\ GetSkills(internships[k]) = <<>> => scored[k].score = 0
                      /\ (P = {python, sql} /\ S = {python, sql, pandas, analytics})
                            => scored[k].score = 8000
            /\ \A i \in 1..Len(resp.body) :
                  resp.body[i].score =
                      RefScore(P, NormSet(resp.body[i].internship.skills))

\* a ranking that returns the 0.8 example
C1_Witness ==
    /\ Ranked
    /\ NormSet(StoredPrefs) = {python, sql}
    /\ \E i \in 1..Len(resp.body) :
          /\ NormSet(resp.body[i].internship.skills) = {python, sql, pandas, analytics}
          /\ resp.body[i].score = 8000

\* C2: a limit of zero or below gives the empty ranking
C2_NonPositiveLimitEmpty ==
    (Ranked /\ req.limit <= 0) => resp.body = <<>>

\* the stable descending ranking of the postings whose score is positive
PositiveRanking == SortDesc(Positive(AllScored))

\* C3: for a limit of zero or above, the ranking is no longer than the limit
\* and the catalog, holds positive scores only, and is the first
\* min(limit, k) entries of the sorted list of the k positive postings
C3_FirstOfPositive ==
    (Ranked /\ req.limit >= 0) =>
        LET ranking == PositiveRanking
        IN  /\ Len(resp.body) <= req.limit
            /\ Len(resp.body) <= Len(internships)
            /\ \A i \in 1..Len(resp.body) : resp.body[i].score > 0
            /\ resp.body = SubSeq(ranking, 1, Min(req.limit, Len(ranking)))

\* a ranking cut to the limit: two positive postings, one returned
C3_Witness ==
    /\ Ranked
    /\ req.limit = 1
    /\ Len(PositiveRanking) = 2
    /\ resp.body = <<PositiveRanking[1]>>

\* the place in the catalog of a returned entry
Position(e) ==
    CHOOSE k \in 1..Len(internships) : InternshipView(internships[k]) = e.internship

\* C4: the ranking is in non-increasing score order, and entries with equal
\* scores keep the order they have in the catalog
C4_SortedStable ==
    Ranked =>
        \A i, j \in 1..Len(resp.body) :
            i < j =>
                /\ resp.body[i].score >= resp.body[j].score
                /\ resp.body[i].score = resp.body[j].score
                      => Position(resp.body[i]) < Position(resp.body[j])

\* a ranking of two postings with equal scores, in their catalog order
C4_Witness ==
    /\ Ranked
    /\ Len(resp.body) = 2
    /\ resp.body[1].score = resp.body[2].score
    /\ Position(resp.body[1]) < Position(resp.body[2])

\* C5: a student whose preference list is empty or absent gets the empty
\* ranking, every score being 0
C5_EmptyPrefsEmptyRanking ==
    (Ranked /\ StoredPrefs = <<>>) =>
        LET scored == AllScored
        IN  /\ resp.body = <<>>
            /\ \A k \in 1..Len(internships) : scored[k].score = 0

\* an empty ranking over postings with skills, for a student without the field
C5_Witness ==
    /\ Ranked
    /\ "preferences" \notin DOMAIN TheUser
    /\ req.limit > 0
    /\ Len(internships) = MaxCatalog
    /\ \A k \in 1..Len(internships) : GetSkills(internships[k]) # <<>>
    /\ resp.body = <<>>

PrefNorm == [pl \in PrefLists |-> NormSet(pl)]

SkillNorm == [sl \in SkillLists |-> NormSet(sl)]

SignedInExisting ==
    /\ req'.op = "signin"
    /\ resp'.status = 200
    /\ find_one(students, req'.email) # 0

\* C7: a successful signin of a registered student that submits at least one
\* preference token leaves exactly the submitted list stored for that student
C7_UpdateReplaces ==
    [][ (SignedInExisting /\ ParsePrefs(req'.preferences) # <<>>) =>
            students'[find_one(students, req'.email)].preferences
                = ParsePrefs(req'.preferences) ]_vars

\* a registered student (no name was sent, so none was created) signed in
\* with new preferences, which are the stored ones now
C7_Witness ==
    /\ req.op = "signin"
    /\ resp.status = 200
    /\ req.name = ""
    /\ ParsePrefs(req.preferences) = <<sql, SQL, sql>>
    /\ TheUser.preferences = <<sql, SQL, sql>>
    /\ resp.body.preferences = <<sql, SQL, sql>>

NoDuplicates(list) == \A j, k \in 1..Len(list) : j # k => list[j] # list[k]

Trimmed(token) ==
    /\ token # <<>>
    /\ ~IsSpace(token[1])
    /\ ~IsSpace(token[Len(token)])
    /\ \A c \in 1..Len(token) : token[c] # ","

C9_UnknownStudentNotFound ==
    [][ (req'.op = "match" /\ db # NoDb /\ find_one(students, req'.email) = 0) =>
            /\ resp'.status = 404
            /\ students' = students
            /\ internships' = internships ]_vars

\* a 404 for an unknown email while the catalog is seeded and another student
\* is registered
C9_Witness ==
    /\ req.op = "match"
    /\ resp.status = 404
    /\ internships # <<>>
    /\ students # <<>>

UniqueEmails ==
    \A i, j \in 1..Len(students) : students[i].email = students[j].email => i = j

\* C10: the student store never holds two records with one email, and a
\* signin rejected with 401 or 400 leaves the store as it was
C10_OneRecordPerEmail ==
    /\ []UniqueEmails
    /\ [][ (req'.op = "signin" /\ resp'.status \in {400, 401}) =>
              students' = students ]_vars

\* two students are registered and a signin with a wrong password was rejected
C10_Witness ==
    /\ Len(students) = 2
    /\ req.op = "signin"
    /\ resp.status = 401

====
